---- MODULE Spec2Model ----
(***************************************************************************)
(* Model of src.ts/transaction.ts: the variant constructors, the SCHEMA    *)
(* table, Transaction/SignedTransaction encode and decode,                 *)
(* createTransaction and the asynchronous signTransaction protocol.        *)
(*                                                                         *)
(* Representation of JavaScript values:                                    *)
(*   string      a sequence of Unicode code points (each below 0x800)      *)
(*   Uint8Array  a sequence of bytes 0..255                                *)
(*   number, BN  a natural number                                          *)
(*   object      a record; a property whose value is undefined is a field  *)
(*               that is absent from the record                            *)
(***************************************************************************)
EXTENDS Integers, Sequences, FiniteSets, TLC

(***************************************************************************)
(* Bounds of the model.                                                    *)
(***************************************************************************)
\* largest number of Action values the caller collects into one list
MaxActions == 2
\* largest number of arguments a call site supplies beyond the declared ones
MaxExtraArgs == 1

(***************************************************************************)
(* Primitive codec (utils/serialize: BinaryWriter / BinaryReader).         *)
(***************************************************************************)
\* an encoder result: the bytes written, or the error thrown
Ok(b) == [err |-> "", bytes |-> b]

Err(e) == [err |-> e, bytes |-> <<>>]

Cat(r1, r2) ==
    IF r1.err # "" THEN r1
    ELSE IF r2.err # "" THEN r2
    ELSE Ok(r1.bytes \o r2.bytes)

RECURSIVE LE(_, _)
\* little-endian fixed-width encoding of n in w bytes
LE(n, w) == IF w = 0 THEN <<>> ELSE <<n % 256>> \o LE(n \div 256, w - 1)

RECURSIVE FromLE(_)
\* the unsigned integer a little-endian byte string denotes
FromLE(b) == IF b = <<>> THEN 0 ELSE Head(b) + 256 * FromLE(Tail(b))

\* width in bytes of the fixed-width unsigned integer types
IntWidth(t) ==
    CASE t = "u8" -> 1
      [] t = "u16" -> 2
      [] t = "u32" -> 4
      [] t = "u64" -> 8
      [] t = "u128" -> 16

IsIntType(t) == t \in {"u8", "u16", "u32", "u64", "u128"}

RECURSIVE Utf8Encode(_)
\* UTF-8 bytes of a string of code points below 0x800
Utf8Encode(s) ==
    IF s = <<>> THEN <<>>
    ELSE LET c == Head(s) IN
         (IF c < 128 THEN <<c>>
          ELSE <<192 + (c \div 64), 128 + (c % 64)>>) \o Utf8Encode(Tail(s))

RECURSIVE Utf8Decode(_)
\* code points of a UTF-8 byte string; [ok |-> FALSE] when it is not valid
\* UTF-8 (only one- and two-byte sequences occur in the model)
Utf8Decode(b) ==
    IF b = <<>> THEN [ok |-> TRUE, s |-> <<>>]
    ELSE LET h == Head(b) IN
         IF h < 128
         THEN LET r == Utf8Decode(Tail(b)) IN
              IF r.ok THEN [ok |-> TRUE, s |-> <<h>> \o r.s] ELSE r
         ELSE IF h >= 194 /\ h < 224 /\ Len(b) >= 2 /\ b[2] >= 128 /\ b[2] < 192
         THEN LET r == Utf8Decode(SubSeq(b, 3, Len(b))) IN
              IF r.ok THEN [ok |-> TRUE, s |-> <<(h - 192) * 64 + (b[2] - 128)>> \o r.s]
              ELSE r
         ELSE [ok |-> FALSE, s |-> <<>>]

(***************************************************************************)
(* Schema registry: SCHEMA of transaction.ts.  A field type is             *)
(*   Prim(t)        the string 't' naming a primitive ('u8', 'string', ..) *)
(*   Class(c)       a class registered in SCHEMA                           *)
(*   FixedBytes(n)  [n]: exactly n raw bytes                               *)
(*   Vec(t)         [t]: u32 count, then the elements                      *)
(*   Option(t)      {kind: 'option', type: t}                              *)
(***************************************************************************)
Prim(t) == [kind |-> "prim", of |-> t, len |-> 0]

Class(c) == [kind |-> "class", of |-> c, len |-> 0]

FixedBytes(n) == [kind |-> "fixed", of |-> "u8", len |-> n]

Vec(t) == [kind |-> "vec", of |-> t, len |-> 0]

Option(t) == [kind |-> "option", of |-> t, len |-> 0]

\* byte lengths fixed by the schema
PublicKeyLen == 32

BlockHashLen == 32

SignatureLen == 64

\* ActionValues with transfer and stake declared in the other order
ActionValues_Swapped ==
    << <<"createAccount", "CreateAccount">>,
       <<"deployContract", "DeployContract">>,
       <<"functionCall", "FunctionCall">>,
       <<"stake", "Stake">>,
       <<"transfer", "Transfer">>,
       <<"addKey", "AddKey">>,
       <<"deleteKey", "DeleteKey">>,
       <<"deleteAccount", "DeleteAccount">> >>

\* the declared variant list of the Action union, in schema order
ActionValues ==
    << <<"createAccount", "CreateAccount">>,
       <<"deployContract", "DeployContract">>,
       <<"functionCall", "FunctionCall">>,
       <<"transfer", "Transfer">>,
       <<"stake", "Stake">>,
       <<"addKey", "AddKey">>,
       <<"deleteKey", "DeleteKey">>,
       <<"deleteAccount", "DeleteAccount">> >>

\* the declared variant list of the AccessKeyPermission union
AccessKeyPermissionValues ==
    << <<"functionCall", "FunctionCallPermission">>,
       <<"fullAccess", "FullAccessPermission">> >>

\* the declared field list of Transaction
TransactionFields ==
    << <<"signerId", Prim("string")>>,
       <<"publicKey", Class("PublicKey")>>,
       <<"nonce", Prim("u64")>>,
       <<"receiverId", Prim("string")>>,
       <<"blockHash", FixedBytes(BlockHashLen)>>,
       <<"actions", Vec("Action")>> >>

SCHEMA ==
    [ Signature |-> [kind |-> "struct", fields |->
          << <<"keyType", Prim("u8")>>, <<"data", FixedBytes(SignatureLen)>> >>],
      SignedTransaction |-> [kind |-> "struct", fields |->
          << <<"transaction", Class("Transaction")>>,
             <<"signature", Class("Signature")>> >>],
      Transaction |-> [kind |-> "struct", fields |-> TransactionFields],
      PublicKey |-> [kind |-> "struct", fields |->
          << <<"keyType", Prim("u8")>>, <<"data", FixedBytes(PublicKeyLen)>> >>],
      AccessKey |-> [kind |-> "struct", fields |->
          << <<"nonce", Prim("u64")>>,
             <<"permission", Class("AccessKeyPermission")>> >>],
      AccessKeyPermission |-> [kind |-> "enum", field |-> "enum",
                               values |-> AccessKeyPermissionValues],
      FunctionCallPermission |-> [kind |-> "struct", fields |->
          << <<"allowance", Option("u128")>>,
             <<"receiverId", Prim("string")>>,
             <<"methodNames", Vec("string")>> >>],
      FullAccessPermission |-> [kind |-> "struct", fields |-> <<>>],
      Action |-> [kind |-> "enum", field |-> "enum", values |-> ActionValues],
      CreateAccount |-> [kind |-> "struct", fields |-> <<>>],
      DeployContract |-> [kind |-> "struct", fields |->
          << <<"code", Vec("u8")>> >>],
      FunctionCall |-> [kind |-> "struct", fields |->
          << <<"methodName", Prim("string")>>,
             <<"args", Vec("u8")>>,
             <<"gas", Prim("u64")>>,
             <<"deposit", Prim("u128")>> >>],
      Transfer |-> [kind |-> "struct", fields |->
          << <<"deposit", Prim("u128")>> >>],
      Stake |-> [kind |-> "struct", fields |->
          << <<"stake", Prim("u128")>>, <<"publicKey", Class("PublicKey")>> >>],
      AddKey |-> [kind |-> "struct", fields |->
          << <<"publicKey", Class("PublicKey")>>,
             <<"accessKey", Class("AccessKey")>> >>],
      DeleteKey |-> [kind |-> "struct", fields |->
          << <<"publicKey", Class("PublicKey")>> >>],
      DeleteAccount |-> [kind |-> "struct", fields |->
          << <<"beneficiaryId", Prim("string")>> >>] ]

\* the type an element name inside [t] or an option denotes
ElemType(schema, t) == IF t \in DOMAIN schema THEN Class(t) ELSE Prim(t)

\* the variant slots of a union value that hold a value
PopulatedSlots(values, obj) ==
    {values[k][1] : k \in 1..Len(values)} \cap DOMAIN obj

\* one-based position of a variant name in a declared variant list
VariantIndex(values, name) ==
    CHOOSE k \in 1..Len(values) : values[k][1] = name

(***************************************************************************)
(* Composite encoder (utils/serialize: serialize).                         *)
(***************************************************************************)
RECURSIVE SerializeField(_, _, _), SerializeStruct(_, _, _), SerializeElems(_, _, _), SerializeFields(_, _, _)
\* encoding of one value under a field type
SerializeField(schema, value, ft) ==
    CASE ft.kind = "prim" ->
           IF IsIntType(ft.of) THEN Ok(LE(value, IntWidth(ft.of)))
           ELSE LET utf8 == Utf8Encode(value) IN Ok(LE(Len(utf8), 4) \o utf8)
      [] ft.kind = "fixed" ->
           IF Len(value) # ft.len THEN Err("SchemaError") ELSE Ok(value)
      [] ft.kind = "vec" ->
           Cat(Ok(LE(Len(value), 4)),
               SerializeElems(schema, value, ElemType(schema, ft.of)))
      [] ft.kind = "class" -> SerializeStruct(schema, value, ft.of)

\* the elements of a variable-length array, in order
SerializeElems(schema, elems, et) ==
    IF elems = <<>> THEN Ok(<<>>)
    ELSE Cat(SerializeField(schema, Head(elems), et),
             SerializeElems(schema, Tail(elems), et))

\* the fields of a record in declared order; an option field writes its
\* presence byte, any other field must hold a value
SerializeFields(schema, obj, fields) ==
    IF fields = <<>> THEN Ok(<<>>)
    ELSE LET name == Head(fields)[1]
             ft == Head(fields)[2]
             this ==
                 IF ft.kind = "option"
                 THEN IF name \in DOMAIN obj
                      THEN Cat(Ok(<<1>>),
                               SerializeField(schema, obj[name], ElemType(schema, ft.of)))
                      ELSE Ok(<<0>>)
                 ELSE IF name \in DOMAIN obj
                      THEN SerializeField(schema, obj[name], ft)
                      ELSE Err("SchemaError")
         IN Cat(this, SerializeFields(schema, obj, Tail(fields)))

\* a record, or a tagged union: one discriminant byte, the zero-based index
\* of the populated variant, then that variant's payload
SerializeStruct(schema, obj, className) ==
    IF className \notin DOMAIN schema THEN Err("SchemaError")
    ELSE LET desc == schema[className] IN
         IF desc.kind = "struct" THEN SerializeFields(schema, obj, desc.fields)
         ELSE LET slots == PopulatedSlots(desc.values, obj) IN
              IF Cardinality(slots) # 1 THEN Err("VariantError")
              ELSE LET name == CHOOSE n \in slots : TRUE
                       idx == VariantIndex(desc.values, name)
                   IN Cat(Ok(<<idx - 1>>),
                          SerializeStruct(schema, obj[name], desc.values[idx][2]))

\* serialize(schema, obj) for an instance of class className
Serialize(schema, className, obj) == SerializeStruct(schema, obj, className)

(***************************************************************************)
(* Composite decoder (utils/serialize: deserialize).  A decoder result is  *)
(* the value read and the bytes that remain, or the error thrown.          *)
(***************************************************************************)
Read(v, rest) == [err |-> "", v |-> v, rest |-> rest]

ReadErr(e) == [err |-> e, rest |-> <<>>]

\* the object of an Assignable with no properties
EmptyObject == [p \in {} |-> 0]

RECURSIVE DeserializeField(_, _, _), DeserializeStruct(_, _, _), DeserializeElems(_, _, _, _), DeserializeFields(_, _, _, _)
\* one value of a field type read from the front of bytes; never reads past
\* the end of the slice
DeserializeField(schema, bytes, ft) ==
    CASE ft.kind = "prim" ->
           IF IsIntType(ft.of)
           THEN LET w == IntWidth(ft.of) IN
                IF Len(bytes) < w THEN ReadErr("SchemaError")
                ELSE Read(FromLE(SubSeq(bytes, 1, w)), SubSeq(bytes, w + 1, Len(bytes)))
           ELSE IF Len(bytes) < 4 THEN ReadErr("SchemaError")
           ELSE LET n == FromLE(SubSeq(bytes, 1, 4)) IN
                IF Len(bytes) < 4 + n THEN ReadErr("SchemaError")
                ELSE LET d == Utf8Decode(SubSeq(bytes, 5, 4 + n)) IN
                     IF d.ok THEN Read(d.s, SubSeq(bytes, 5 + n, Len(bytes)))
                     ELSE ReadErr("SchemaError")
      [] ft.kind = "fixed" ->
           IF Len(bytes) < ft.len THEN ReadErr("SchemaError")
           ELSE Read(SubSeq(bytes, 1, ft.len), SubSeq(bytes, ft.len + 1, Len(bytes)))
      [] ft.kind = "vec" ->
           IF Len(bytes) < 4 THEN ReadErr("SchemaError")
           ELSE DeserializeElems(schema, SubSeq(bytes, 5, Len(bytes)),
                                 ElemType(schema, ft.of), FromLE(SubSeq(bytes, 1, 4)))
      [] ft.kind = "class" -> DeserializeStruct(schema, bytes, ft.of)

\* count elements of a variable-length array, in order
DeserializeElems(schema, bytes, et, count) ==
    IF count = 0 THEN Read(<<>>, bytes)
    ELSE LET e == DeserializeField(schema, bytes, et) IN
         IF e.err # "" THEN e
         ELSE LET r == DeserializeElems(schema, e.rest, et, count - 1) IN
              IF r.err # "" THEN r ELSE Read(<<e.v>> \o r.v, r.rest)

\* the fields of a record read in declared order and added to obj; an
\* absent option leaves its field unset
DeserializeFields(schema, bytes, fields, obj) ==
    IF fields = <<>> THEN Read(obj, bytes)
    ELSE LET name == Head(fields)[1]
             ft == Head(fields)[2]
         IN IF ft.kind = "option"
            THEN IF Len(bytes) < 1 THEN ReadErr("SchemaError")
                 ELSE IF bytes[1] = 0
                 THEN DeserializeFields(schema, Tail(bytes), Tail(fields), obj)
                 ELSE IF bytes[1] = 1
                 THEN LET e == DeserializeField(schema, Tail(bytes), ElemType(schema, ft.of)) IN
                      IF e.err # "" THEN e
                      ELSE DeserializeFields(schema, e.rest, Tail(fields), obj @@ (name :> e.v))
                 ELSE ReadErr("SchemaError")
            ELSE LET e == DeserializeField(schema, bytes, ft) IN
                 IF e.err # "" THEN e
                 ELSE DeserializeFields(schema, e.rest, Tail(fields), obj @@ (name :> e.v))

\* a record, or a tagged union: the discriminant byte selects the variant and
\* a discriminant outside the declared list is rejected
DeserializeStruct(schema, bytes, className) ==
    IF className \notin DOMAIN schema THEN ReadErr("SchemaError")
    ELSE LET desc == schema[className] IN
         IF desc.kind = "struct"
         THEN DeserializeFields(schema, bytes, desc.fields, EmptyObject)
         ELSE IF Len(bytes) < 1 THEN ReadErr("SchemaError")
         ELSE LET idx == bytes[1] IN
              IF idx >= Len(desc.values) THEN ReadErr("SchemaError")
              ELSE LET name == desc.values[idx + 1][1]
                       e == DeserializeStruct(schema, Tail(bytes), desc.values[idx + 1][2])
                   IN IF e.err # "" THEN e
                      ELSE Read((desc.field :> name) @@ (name :> e.v), e.rest)

\* deserialize(schema, classType, buffer): the value, or the error thrown
Deserialize(schema, className, buffer) ==
    LET r == DeserializeStruct(schema, buffer, className) IN
    IF r.err # "" THEN [err |-> r.err] ELSE [err |-> "", value |-> r.v]

(***************************************************************************)
(* Classes and variant constructors of transaction.ts.                     *)
(***************************************************************************)
\* what a call produces: the value returned, or the error thrown
Returned(v) == [threw |-> FALSE, value |-> v]

Threw(e) == [threw |-> TRUE, error |-> e]

\* the Error a variant constructor throws on a wrong argument count
WrongNumberOfArguments(args, expected) ==
    [message |-> "Wrong number of arguments", count |-> Len(args), expected |-> expected]

\* new Assignable(properties): every property is assigned to the instance
Assignable(properties) == properties

\* new Enum(properties): the single property is assigned and its key is
\* recorded in the field 'enum' (every call in transaction.ts passes an
\* object literal with exactly one key)
Enum(properties) ==
    LET key == CHOOSE k \in DOMAIN properties : TRUE IN
    ("enum" :> key) @@ properties

\* the object literal {p1, .., pn} of a function's parameters when it is
\* called with args: a parameter without an argument is undefined
Params(names, args) ==
    LET bound == {k \in 1..Len(names) : k <= Len(args)} IN
    [n \in {names[k] : k \in bound} |-> args[CHOOSE k \in bound : names[k] = n]]

fullAccessKey(args) ==
    IF Len(args) # 0 THEN Threw(WrongNumberOfArguments(args, "none"))
    ELSE Returned(Assignable([nonce |-> 0,
                              permission |-> Enum([fullAccess |-> Assignable(EmptyObject)])]))

functionCallAccessKey(args) ==
    Returned(Assignable([nonce |-> 0,
                         permission |-> Enum([functionCall |->
                             Assignable(Params(<<"receiverId", "methodNames", "allowance">>, args))])]))

createAccount(args) ==
    IF Len(args) # 0 THEN Threw(WrongNumberOfArguments(args, "none"))
    ELSE Returned(Enum([createAccount |-> Assignable(EmptyObject)]))

deployContract(args) ==
    IF Len(args) # 1 THEN Threw(WrongNumberOfArguments(args, "code"))
    ELSE Returned(Enum([deployContract |-> Assignable(Params(<<"code">>, args))]))

functionCall(args) ==
    IF Len(args) # 4
    THEN Threw(WrongNumberOfArguments(args, "methodName, args, gas, deposit"))
    ELSE Returned(Enum([functionCall |->
             Assignable(Params(<<"methodName", "args", "gas", "deposit">>, args))]))

transfer(args) ==
    IF Len(args) # 1 THEN Threw(WrongNumberOfArguments(args, "deposit"))
    ELSE Returned(Enum([transfer |-> Assignable(Params(<<"deposit">>, args))]))

stake(args) ==
    IF Len(args) # 2 THEN Threw(WrongNumberOfArguments(args, "stake and publicKey"))
    ELSE Returned(Enum([stake |-> Assignable(Params(<<"stake", "publicKey">>, args))]))

addKey(args) ==
    IF Len(args) # 2 THEN Threw(WrongNumberOfArguments(args, "publicKey and accessKey"))
    ELSE Returned(Enum([addKey |-> Assignable(Params(<<"publicKey", "accessKey">>, args))]))

\* deleteKey that fills the deleteAccount slot
deleteKey_WrongSlot(args) ==
    IF Len(args) # 1 THEN Threw(WrongNumberOfArguments(args, "publicKey"))
    ELSE Returned(Enum([deleteAccount |-> Assignable(Params(<<"publicKey">>, args))]))

deleteKey(args) ==
    IF Len(args) # 1 THEN Threw(WrongNumberOfArguments(args, "publicKey"))
    ELSE Returned(Enum([deleteKey |-> Assignable(Params(<<"publicKey">>, args))]))

deleteAccount(args) ==
    IF Len(args) # 1 THEN Threw(WrongNumberOfArguments(args, "beneficiaryId"))
    ELSE Returned(Enum([deleteAccount |-> Assignable(Params(<<"beneficiaryId">>, args))]))

\* Transaction.encode() that writes receiverId and signerId in each other's
\* place
Transaction_encode_Swapped(this) ==
    Serialize([SCHEMA EXCEPT !.Transaction.fields =
                   << <<"receiverId", Prim("string")>>,
                      <<"publicKey", Class("PublicKey")>>,
                      <<"nonce", Prim("u64")>>,
                      <<"signerId", Prim("string")>>,
                      <<"blockHash", FixedBytes(BlockHashLen)>>,
                      <<"actions", Vec("Action")>> >>],
              "Transaction", this)

\* Transaction.encode()
Transaction_encode(this) == Serialize(SCHEMA, "Transaction", this)

\* Transaction.decode(bytes)
Transaction_decode(bytes) == Deserialize(SCHEMA, "Transaction", bytes)

\* SignedTransaction.encode()
SignedTransaction_encode(this) == Serialize(SCHEMA, "SignedTransaction", this)

\* SignedTransaction.decode(bytes)
SignedTransaction_decode(bytes) == Deserialize(SCHEMA, "SignedTransaction", bytes)

\* createTransaction; signerId is an argument list of length one, or empty
\* when the caller's accountId is undefined
createTransaction(signerId, publicKey, receiverId, nonce, actions, blockHash) ==
    Assignable(Params(<<"signerId">>, signerId)
               @@ [publicKey |-> publicKey, nonce |-> nonce, receiverId |-> receiverId,
                   actions |-> actions, blockHash |-> blockHash])

(***************************************************************************)
(* Input values.                                                           *)
(***************************************************************************)
\* the strings "a" and "b" followed by U+00E9 (two UTF-8 bytes)
Str1 == <<97>>

Str2 == <<98, 233>>

Bytes(n, b) == [i \in 1..n |-> b]

PK(keyType, b) == [keyType |-> keyType, data |-> Bytes(PublicKeyLen, b)]

PublicKeys == {PK(0, 17), PK(1, 200)}

Amounts == {123, 70000}

\* every list of at most n + MaxExtraArgs arguments whose first n arguments
\* are drawn from full (lists of exactly n arguments)
RECURSIVE Extras(_)
Extras(k) == IF k = 0 THEN {<<>>} ELSE {<<>>} \cup {<<0>> \o e : e \in Extras(k - 1)}

ArgLists(full, n) ==
    {SubSeq(t, 1, k) : t \in full, k \in 0..n}
        \cup {t \o e : t \in full, e \in Extras(MaxExtraArgs)}

FunctionCallAccessKeyArgs ==
    ArgLists({<<Str2, m, 123>> : m \in {<<>>, <<Str1, Str2>>}}, 3)

\* the access keys a caller can hold: builder outputs with every declared
\* argument other than the optional allowance supplied
AccessKeys ==
    {fullAccessKey(<<>>).value}
        \cup {functionCallAccessKey(a).value :
                a \in {b \in FunctionCallAccessKeyArgs : Len(b) \in {2, 3} /\ b[2] # <<>>}}

(***************************************************************************)
(* State.                                                                  *)
(***************************************************************************)
VARIABLES
    call,        \* the last variant-constructor call: its name and arguments
    ret,         \* what that call produced
    actions,     \* the Action values the caller has collected so far
    obj,         \* the Transaction or SignedTransaction the caller holds
    encoded,     \* what obj.encode() produced
    decoded,     \* what decode of those bytes produced
    pc,          \* per signTransaction invocation: the statement it is at
    args,        \* per invocation: the arguments it was called with
    locals,      \* per invocation: the constants bound so far
    result,      \* per invocation: the pair its promise resolved with
    error,       \* per invocation: the error its promise rejected with
    steps,       \* per invocation: the protocol steps performed, in order
    signerCalls, \* per invocation: the requests made to the Signer and
                 \* how the Signer settled them
    running      \* the invocation that holds the thread, 0 when none does

buildVars == <<call, ret, actions, obj, encoded, decoded>>

signVars == <<pc, args, locals, result, error, steps, signerCalls, running>>

vars == <<call, ret, actions, obj, encoded, decoded,
          pc, args, locals, result, error, steps, signerCalls, running>>

\* the two signTransaction invocations in flight
Invocations == {1, 2}

NoObject == [cls |-> "none"]

InitBuildVars ==
    /\ call = [fn |-> "none", args |-> <<>>]
    /\ ret = [threw |-> FALSE]
    /\ actions = <<>>
    /\ obj = NoObject
    /\ encoded = NoObject
    /\ decoded = NoObject

InitSignVars ==
    /\ pc = [i \in Invocations |-> "idle"]
    /\ args = [i \in Invocations |-> EmptyObject]
    /\ locals = [i \in Invocations |-> EmptyObject]
    /\ result = [i \in Invocations |-> <<>>]
    /\ error = [i \in Invocations |-> ""]
    /\ steps = [i \in Invocations |-> <<>>]
    /\ signerCalls = [i \in Invocations |-> <<>>]
    /\ running = 0

Init == InitBuildVars /\ InitSignVars

ActionBuilders ==
    {"createAccount", "deployContract", "functionCall", "transfer", "stake",
     "addKey", "deleteKey", "deleteAccount"}

\* the effect of a caller's call of the variant constructor fn with
\* arguments a, which produced r: an Action that is returned joins the
\* caller's list
Called(fn, a, r) ==
    /\ call' = [fn |-> fn, args |-> a]
    /\ ret' = r
    /\ actions' = IF ~r.threw /\ fn \in ActionBuilders /\ Len(actions) < MaxActions
                  THEN Append(actions, r.value)
                  ELSE actions
    /\ encoded' = NoObject
    /\ UNCHANGED <<obj, decoded, signVars>>

FullAccessKey ==
    /\ obj = NoObject
    /\ \E a \in ArgLists({<<>>}, 0) :
         Called("fullAccessKey", a, fullAccessKey(a))

FunctionCallAccessKey ==
    /\ obj = NoObject
    /\ \E a \in FunctionCallAccessKeyArgs :
         Called("functionCallAccessKey", a, functionCallAccessKey(a))

CreateAccount ==
    /\ obj = NoObject
    /\ \E a \in ArgLists({<<>>}, 0) :
         Called("createAccount", a, createAccount(a))

DeployContract ==
    /\ obj = NoObject
    /\ \E a \in ArgLists({<<<<1, 255>>>>}, 1) :
         Called("deployContract", a, deployContract(a))

FunctionCall ==
    /\ obj = NoObject
    /\ \E a \in ArgLists({<<Str1, <<>>, 5, 0>>}, 4) :
         Called("functionCall", a, functionCall(a))

Transfer ==
    /\ obj = NoObject
    /\ \E a \in ArgLists({<<d>> : d \in Amounts}, 1) :
         Called("transfer", a, transfer(a))

Stake ==
    /\ obj = NoObject
    /\ \E a \in ArgLists({<<70000, PK(1, 200)>>}, 2) :
         Called("stake", a, stake(a))

AddKey ==
    /\ obj = NoObject
    /\ \E a \in ArgLists({<<PK(0, 17), k>> : k \in AccessKeys}, 2) :
         Called("addKey", a, addKey(a))

DeleteKey ==
    /\ obj = NoObject
    /\ \E a \in ArgLists({<<PK(0, 17)>>}, 1) :
         Called("deleteKey", a, deleteKey(a))

DeleteAccount ==
    /\ obj = NoObject
    /\ \E a \in ArgLists({<<Str2>>}, 1) :
         Called("deleteAccount", a, deleteAccount(a))

\* the caller is done with the variant constructors and assembles a
\* Transaction from the collected actions
CreateTransaction ==
    /\ obj = NoObject
    /\ \E p \in {<<PK(0, 17), 1>>, <<PK(1, 200), 300>>} :
         obj' = [cls |-> "Transaction",
                 v |-> createTransaction(<<Str1>>, p[1], Str2, p[2], actions,
                                         Bytes(BlockHashLen, 9))]
    /\ call' = [fn |-> "none", args |-> <<>>]
    /\ ret' = [threw |-> FALSE]
    /\ encoded' = NoObject
    /\ UNCHANGED <<actions, decoded, signVars>>

\* the caller encodes the value the last variant constructor returned:
\* serialize(SCHEMA, value)
SerializeReturned ==
    /\ obj = NoObject
    /\ call.fn # "none"
    /\ ~ret.threw
    /\ encoded = NoObject
    /\ LET cls == IF call.fn \in ActionBuilders THEN "Action" ELSE "AccessKey" IN
       encoded' = [cls |-> cls, r |-> Serialize(SCHEMA, cls, ret.value)]
    /\ UNCHANGED <<call, ret, actions, obj, decoded, signVars>>

\* new SignedTransaction({transaction, signature: new Signature({..})})
NewSignedTransaction ==
    /\ obj.cls = "Transaction"
    /\ encoded = NoObject
    /\ \E keyType \in {0, 1} :
         obj' = [cls |-> "SignedTransaction",
                 v |-> Assignable([transaction |-> obj.v,
                                   signature |-> Assignable([keyType |-> keyType,
                                       data |-> Bytes(SignatureLen, 77)])])]
    /\ UNCHANGED <<call, ret, actions, encoded, decoded, signVars>>

TransactionEncode ==
    /\ obj.cls = "Transaction"
    /\ encoded = NoObject
    /\ encoded' = [cls |-> "Transaction", r |-> Transaction_encode(obj.v)]
    /\ UNCHANGED <<call, ret, actions, obj, decoded, signVars>>

TransactionDecode ==
    /\ encoded.cls = "Transaction"
    /\ encoded.r.err = ""
    /\ decoded = NoObject
    /\ decoded' = [cls |-> "Transaction", r |-> Transaction_decode(encoded.r.bytes)]
    /\ UNCHANGED <<call, ret, actions, obj, encoded, signVars>>

SignedTransactionEncode ==
    /\ obj.cls = "SignedTransaction"
    /\ encoded = NoObject
    /\ encoded' = [cls |-> "SignedTransaction", r |-> SignedTransaction_encode(obj.v)]
    /\ UNCHANGED <<call, ret, actions, obj, decoded, signVars>>

SignedTransactionDecode ==
    /\ encoded.cls = "SignedTransaction"
    /\ encoded.r.err = ""
    /\ decoded = NoObject
    /\ decoded' = [cls |-> "SignedTransaction",
                   r |-> SignedTransaction_decode(encoded.r.bytes)]
    /\ UNCHANGED <<call, ret, actions, obj, encoded, signVars>>

NextBuild ==
    \/ FullAccessKey
    \/ FunctionCallAccessKey
    \/ CreateAccount
    \/ DeployContract
    \/ FunctionCall
    \/ Transfer
    \/ Stake
    \/ AddKey
    \/ DeleteKey
    \/ DeleteAccount
    \/ SerializeReturned
    \/ CreateTransaction
    \/ NewSignedTransaction
    \/ TransactionEncode
    \/ TransactionDecode
    \/ SignedTransactionEncode
    \/ SignedTransactionDecode

SpecBuild == Init /\ [][NextBuild]_vars

(***************************************************************************)
(* signTransaction.  The statements between two awaits run without         *)
(* interruption: running names the invocation that holds the thread.       *)
(***************************************************************************)
\* the argument list <<v>> of an optional property, <<>> when it is undefined
Opt(o, f) == IF f \in DOMAIN o THEN <<o[f]>> ELSE <<>>

\* sha256.sha256.array(message) as a Uint8Array: the digest is a term over
\* the bytes hashed, so two digests are equal only for equal messages
Sha256(message) == [sha256 |-> message]

SignerErrors == {"signer: key not found", "signer: rejected"}

SignatureBytes == {Bytes(SignatureLen, 11), Bytes(SignatureLen, 22)}

\* action lists a caller passes, each Action made by its variant constructor
SignActionLists ==
    { <<transfer(<<123>>).value>>,
      <<createAccount(<<>>).value,
        addKey(<<PK(0, 17), functionCallAccessKey(<<Str2, <<Str1, Str2>>>>).value>>).value>> }

\* the calls signTransaction(receiverId, nonce, actions, blockHash, signer,
\* accountId?, networkId?) of the model, as the object of the parameters
SignArgs ==
    {Params(<<"receiverId", "nonce", "actions", "blockHash", "accountId", "networkId">>,
            SubSeq(t, 1, k)) :
        t \in {<<Str2, 1, l, Bytes(BlockHashLen, 9), Str1, Str2>> : l \in SignActionLists},
        k \in 4..6}

\* the requests of invocation i to the Signer operation op
CallsTo(i, op) == {k \in 1..Len(signerCalls[i]) : signerCalls[i][k].op = op}

\* a request to the Signer that is not yet settled
Request(op, a, extra) ==
    [op |-> op, settled |-> "pending"] @@ extra
        @@ Params(<<"accountId">>, Opt(a, "accountId"))
        @@ Params(<<"networkId">>, Opt(a, "networkId"))

\* the last request of invocation i settled with outcome
Settle(calls, how, outcome) ==
    [calls EXCEPT ![Len(calls)] = [settled |-> how] @@ outcome @@ @]

\* Bind when the constants are module-level variables all invocations share
Bind_Shared(i, name, value) == [j \in Invocations |-> (name :> value) @@ locals[j]]

Bind(i, name, value) == [locals EXCEPT ![i] = @ @@ (name :> value)]

Step(i, name) == [steps EXCEPT ![i] = Append(@, name)]

\* the call: up to the first await, signer.getPublicKey(accountId, networkId)
Invoke(i, a) ==
    /\ pc[i] = "idle"
    /\ running = 0
    /\ args' = [args EXCEPT ![i] = a]
    /\ signerCalls' = [signerCalls EXCEPT ![i] = Append(@, Request("getPublicKey", a, EmptyObject))]
    /\ steps' = Step(i, "getPublicKey")
    /\ pc' = [pc EXCEPT ![i] = "awaitPublicKey"]
    /\ UNCHANGED <<locals, result, error, running, buildVars>>

\* const publicKey = await signer.getPublicKey(..): the Signer answered
GetPublicKeyResolve(i, key) ==
    /\ pc[i] = "awaitPublicKey"
    /\ running = 0
    /\ signerCalls' = [signerCalls EXCEPT ![i] = Settle(@, "resolved", [value |-> key])]
    /\ locals' = Bind(i, "publicKey", key)
    /\ pc' = [pc EXCEPT ![i] = "createTransaction"]
    /\ running' = i
    /\ UNCHANGED <<args, result, error, steps, buildVars>>

\* await signer.getPublicKey(..) threw: the promise rejects with that error
GetPublicKeyReject(i, e) ==
    /\ pc[i] = "awaitPublicKey"
    /\ running = 0
    /\ signerCalls' = [signerCalls EXCEPT ![i] = Settle(@, "rejected", [error |-> e])]
    /\ error' = [error EXCEPT ![i] = e]
    /\ pc' = [pc EXCEPT ![i] = "rejected"]
    /\ UNCHANGED <<args, locals, result, steps, running, buildVars>>

\* const transaction = createTransaction(accountId, publicKey, ..)
Assemble(i) ==
    /\ pc[i] = "createTransaction"
    /\ running = i
    /\ locals' = Bind(i, "transaction",
                      createTransaction(Opt(args[i], "accountId"), locals[i].publicKey,
                                        args[i].receiverId, args[i].nonce,
                                        args[i].actions, args[i].blockHash))
    /\ steps' = Step(i, "assemble")
    /\ pc' = [pc EXCEPT ![i] = "serialize"]
    /\ UNCHANGED <<args, result, error, signerCalls, running, buildVars>>

\* const message = serialize(SCHEMA, transaction); an encoder error rejects
\* the promise
EncodeMessage(i) ==
    /\ pc[i] = "serialize"
    /\ running = i
    /\ LET r == Serialize(SCHEMA, "Transaction", locals[i].transaction) IN
       IF r.err = ""
       THEN /\ locals' = Bind(i, "message", r.bytes)
            /\ steps' = Step(i, "encode")
            /\ pc' = [pc EXCEPT ![i] = "sha256"]
            /\ UNCHANGED <<error, running>>
       ELSE /\ error' = [error EXCEPT ![i] = r.err]
            /\ pc' = [pc EXCEPT ![i] = "rejected"]
            /\ running' = 0
            /\ UNCHANGED <<locals, steps>>
    /\ UNCHANGED <<args, result, signerCalls, buildVars>>

\* const hash = new Uint8Array(sha256.sha256.array(message))
HashMessage(i) ==
    /\ pc[i] = "sha256"
    /\ running = i
    /\ locals' = Bind(i, "hash", Sha256(locals[i].message))
    /\ steps' = Step(i, "hash")
    /\ pc' = [pc EXCEPT ![i] = "signMessage"]
    /\ UNCHANGED <<args, result, error, signerCalls, running, buildVars>>

\* signer.signMessage(message, accountId, networkId), then await
CallSignMessage(i) ==
    /\ pc[i] = "signMessage"
    /\ running = i
    /\ signerCalls' = [signerCalls EXCEPT ![i] =
           Append(@, Request("signMessage", args[i], [message |-> locals[i].message]))]
    /\ steps' = Step(i, "signMessage")
    /\ pc' = [pc EXCEPT ![i] = "awaitSignature"]
    /\ running' = 0
    /\ UNCHANGED <<args, locals, result, error, buildVars>>

\* const signature = await signer.signMessage(..): the Signer answered
SignMessageResolve(i, sig) ==
    /\ pc[i] = "awaitSignature"
    /\ running = 0
    /\ signerCalls' = [signerCalls EXCEPT ![i] =
           Settle(@, "resolved", [value |-> [signature |-> sig]])]
    /\ locals' = Bind(i, "signature", [signature |-> sig])
    /\ pc' = [pc EXCEPT ![i] = "package"]
    /\ running' = i
    /\ UNCHANGED <<args, result, error, steps, buildVars>>

\* SignMessageReject that rejects with an error of its own
SignMessageReject_Wrapped(i, e) ==
    /\ pc[i] = "awaitSignature"
    /\ running = 0
    /\ signerCalls' = [signerCalls EXCEPT ![i] = Settle(@, "rejected", [error |-> e])]
    /\ error' = [error EXCEPT ![i] = "signTransaction: signing failed"]
    /\ pc' = [pc EXCEPT ![i] = "rejected"]
    /\ UNCHANGED <<args, locals, result, steps, running, buildVars>>

\* SignMessageReject that asks the Signer once more after a first failure
SignMessageReject_Retry(i, e) ==
    /\ pc[i] = "awaitSignature"
    /\ running = 0
    /\ signerCalls' = [signerCalls EXCEPT ![i] = Settle(@, "rejected", [error |-> e])]
    /\ IF Cardinality(CallsTo(i, "signMessage")) < 2
       THEN /\ pc' = [pc EXCEPT ![i] = "signMessage"]
            /\ running' = i
            /\ UNCHANGED error
       ELSE /\ pc' = [pc EXCEPT ![i] = "rejected"]
            /\ error' = [error EXCEPT ![i] = e]
            /\ UNCHANGED running
    /\ UNCHANGED <<args, locals, result, steps, buildVars>>

\* await signer.signMessage(..) threw: the promise rejects with that error
SignMessageReject(i, e) ==
    /\ pc[i] = "awaitSignature"
    /\ running = 0
    /\ signerCalls' = [signerCalls EXCEPT ![i] = Settle(@, "rejected", [error |-> e])]
    /\ error' = [error EXCEPT ![i] = e]
    /\ pc' = [pc EXCEPT ![i] = "rejected"]
    /\ UNCHANGED <<args, locals, result, steps, running, buildVars>>

\* NewSignedTx that embeds a Transaction changed after it was encoded
NewSignedTx_Mutated(transaction, publicKey, signature) ==
    Assignable([transaction |-> [transaction EXCEPT !.nonce = @ + 1],
                signature |-> Assignable([keyType |-> publicKey.keyType,
                                          data |-> signature.signature])])

\* NewSignedTx that writes the key type ED25519 (0) whatever the key is
NewSignedTx_FixedKeyType(transaction, publicKey, signature) ==
    Assignable([transaction |-> transaction,
                signature |-> Assignable([keyType |-> 0,
                                          data |-> signature.signature])])

\* new SignedTransaction({transaction, signature: new Signature({keyType:
\* publicKey.keyType, data: signature.signature})})
NewSignedTx(transaction, publicKey, signature) ==
    Assignable([transaction |-> transaction,
                signature |-> Assignable([keyType |-> publicKey.keyType,
                                          data |-> signature.signature])])

\* const signedTx = new SignedTransaction({..})
Package(i) ==
    /\ pc[i] = "package"
    /\ running = i
    /\ locals' = Bind(i, "signedTx",
                      NewSignedTx(locals[i].transaction, locals[i].publicKey,
                                  locals[i].signature))
    /\ steps' = Step(i, "package")
    /\ pc' = [pc EXCEPT ![i] = "return"]
    /\ UNCHANGED <<args, result, error, signerCalls, running, buildVars>>

\* Return that hashes the encoding of the SignedTransaction
Return_HashOfSigned(i) ==
    /\ pc[i] = "return"
    /\ running = i
    /\ result' = [result EXCEPT ![i] =
           <<Sha256(SignedTransaction_encode(locals[i].signedTx).bytes), locals[i].signedTx>>]
    /\ steps' = Step(i, "return")
    /\ pc' = [pc EXCEPT ![i] = "resolved"]
    /\ running' = 0
    /\ UNCHANGED <<args, locals, error, signerCalls, buildVars>>

\* return [hash, signedTx]
Return(i) ==
    /\ pc[i] = "return"
    /\ running = i
    /\ result' = [result EXCEPT ![i] = <<locals[i].hash, locals[i].signedTx>>]
    /\ steps' = Step(i, "return")
    /\ pc' = [pc EXCEPT ![i] = "resolved"]
    /\ running' = 0
    /\ UNCHANGED <<args, locals, error, signerCalls, buildVars>>

Next ==
    \/ \E i \in Invocations, a \in SignArgs : Invoke(i, a)
    \/ \E i \in Invocations, key \in PublicKeys : GetPublicKeyResolve(i, key)
    \/ \E i \in Invocations, e \in SignerErrors : GetPublicKeyReject(i, e)
    \/ \E i \in Invocations : Assemble(i)
    \/ \E i \in Invocations : EncodeMessage(i)
    \/ \E i \in Invocations : HashMessage(i)
    \/ \E i \in Invocations : CallSignMessage(i)
    \/ \E i \in Invocations, sig \in SignatureBytes : SignMessageResolve(i, sig)
    \/ \E i \in Invocations, e \in SignerErrors : SignMessageReject(i, e)
    \/ \E i \in Invocations : Package(i)
    \/ \E i \in Invocations : Return(i)

Spec == Init /\ [][Next]_vars

(***************************************************************************)
(* Properties of the variant constructors and the codec (SpecBuild).       *)
(***************************************************************************)
\* the argument counts each variant constructor declares
DeclaredArity(fn) ==
    CASE fn = "fullAccessKey" -> {0}
      [] fn = "functionCallAccessKey" -> {2, 3}
      [] fn = "createAccount" -> {0}
      [] fn = "deployContract" -> {1}
      [] fn = "functionCall" -> {4}
      [] fn = "transfer" -> {1}
      [] fn = "stake" -> {2}
      [] fn = "addKey" -> {2}
      [] fn = "deleteKey" -> {1}
      [] fn = "deleteAccount" -> {1}

\* C3: every variant constructor fails with an arity error exactly when the
\* number of supplied arguments differs from its declared shape, and returns
\* a value when it matches.
C3_ArityEnforced ==
    call.fn # "none" =>
        IF Len(call.args) \in DeclaredArity(call.fn)
        THEN ~ret.threw
        ELSE ret.threw /\ ret.error.message = "Wrong number of arguments"

\* the discriminants the declared variant lists assign
ActionDiscriminant(fn) ==
    CASE fn = "createAccount" -> 0
      [] fn = "deployContract" -> 1
      [] fn = "functionCall" -> 2
      [] fn = "transfer" -> 3
      [] fn = "stake" -> 4
      [] fn = "addKey" -> 5
      [] fn = "deleteKey" -> 6
      [] fn = "deleteAccount" -> 7

\* C4: the encoding of the Action a builder returned starts with the
\* zero-based index of the variant the builder is named after
\* (createAccount=0 .. deleteAccount=7); the permission of an AccessKey is
\* written, after the u64 nonce, with functionCall=0 and fullAccess=1; and
\* transfer(123) encodes as the byte 3 and the 16 bytes of 123 little-endian.
C4_Discriminant ==
    (encoded.cls \in {"Action", "AccessKey"} /\ encoded.r.err = "") =>
        /\ encoded.cls = "Action" =>
               encoded.r.bytes[1] = ActionDiscriminant(call.fn)
        /\ encoded.cls = "AccessKey" =>
               encoded.r.bytes[9] = (IF call.fn = "functionCallAccessKey" THEN 0 ELSE 1)
        /\ (call.fn = "transfer" /\ call.args = <<123>>) =>
               encoded.r.bytes = <<3, 123, 0, 0, 0, 0, 0, 0, 0, 0, 0, 0, 0, 0, 0, 0, 0>>

C4_Witness ==
    /\ call.fn = "transfer"
    /\ call.args = <<123>>
    /\ encoded.cls = "Action"
    /\ encoded.r.err = ""

\* C6: decoding the bytes a Transaction or SignedTransaction encoded to
\* succeeds and yields a value equal to the one encoded.
C6_RoundTrip ==
    decoded # NoObject =>
        /\ encoded.r.err = ""
        /\ decoded.r.err = ""
        /\ decoded.r.value = obj.v

\* a SignedTransaction was decoded whose actions are an addKey of a
\* function-call access key with an allowance and one without
C6_Witness ==
    /\ decoded # NoObject
    /\ decoded.cls = "SignedTransaction"
    /\ Len(obj.v.transaction.actions) = 2
    /\ \A k \in 1..2 :
         /\ obj.v.transaction.actions[k].enum = "addKey"
         /\ obj.v.transaction.actions[k].addKey.accessKey.permission.enum = "functionCall"
    /\ "allowance" \in DOMAIN obj.v.transaction.actions[1].addKey.accessKey.permission.functionCall
    /\ "allowance" \notin DOMAIN obj.v.transaction.actions[2].addKey.accessKey.permission.functionCall

\* C9: a value a builder returned has exactly one populated variant slot, the
\* one the builder is named after, and encoding it never raises VariantError.
C9_OneSlot ==
    /\ (call.fn \in ActionBuilders /\ ~ret.threw) =>
           /\ DOMAIN ret.value \ {"enum"} = {call.fn}
           /\ PopulatedSlots(ActionValues, ret.value) = {call.fn}
    /\ (call.fn \in {"fullAccessKey", "functionCallAccessKey"} /\ ~ret.threw) =>
           LET slot == IF call.fn = "fullAccessKey" THEN "fullAccess" ELSE "functionCall" IN
           /\ DOMAIN ret.value.permission \ {"enum"} = {slot}
           /\ PopulatedSlots(AccessKeyPermissionValues, ret.value.permission) = {slot}
    /\ encoded.cls \in {"Action", "AccessKey"} => encoded.r.err # "VariantError"

C9_Witness ==
    /\ call.fn = "addKey"
    /\ ~ret.threw
    /\ ret.value.addKey.accessKey.permission.enum = "fullAccess"
    /\ encoded.cls = "Action"
    /\ encoded.r.err = ""

(***************************************************************************)
(* Properties of signTransaction (Spec).                                   *)
(***************************************************************************)
\* the request of invocation i to op, when there is one
TheCall(i, op) == signerCalls[i][CHOOSE k \in CallsTo(i, op) : TRUE]

FullRun ==
    <<"getPublicKey", "assemble", "encode", "hash", "signMessage", "package", "return">>

IsPrefix(p, q) == Len(p) <= Len(q) /\ SubSeq(q, 1, Len(p)) = p

\* C1: once an invocation has succeeded, the bytes it handed to
\* signer.signMessage are the encoding of the Transaction embedded in the
\* SignedTransaction it returned, and it encoded and signed only once.
C1_SignedBytesAreEmbeddedTx ==
    \A i \in Invocations :
        pc[i] = "resolved" =>
            /\ Cardinality(CallsTo(i, "signMessage")) = 1
            /\ Ok(TheCall(i, "signMessage").message)
                   = Transaction_encode(result[i][2].transaction)
            /\ Len(SelectSeq(steps[i], LAMBDA x : x = "encode")) = 1

C1_Witness ==
    /\ pc[1] = "resolved"
    /\ Len(result[1][2].transaction.actions) = 2
    /\ pc[2] = "idle"

\* C2: a Signer failure ends the invocation with that same error and without
\* a result; after a failed getPublicKey, signMessage is never requested;
\* each Signer operation is requested at most once; an invocation that has
\* ended has either the pair [hash, SignedTransaction] or an error, never
\* both and never a part.
C2_FailFast ==
    \A i \in Invocations :
        /\ \A k \in 1..Len(signerCalls[i]) :
               signerCalls[i][k].settled = "rejected" =>
                   /\ pc[i] = "rejected"
                   /\ error[i] = signerCalls[i][k].error
                   /\ result[i] = <<>>
                   /\ k = Len(signerCalls[i])
        /\ Cardinality(CallsTo(i, "getPublicKey")) <= 1
        /\ Cardinality(CallsTo(i, "signMessage")) <= 1
        /\ pc[i] = "resolved" => Len(result[i]) = 2 /\ error[i] = ""
        /\ pc[i] = "rejected" => result[i] = <<>> /\ error[i] # ""
        /\ pc[i] \notin {"resolved", "rejected"} => result[i] = <<>> /\ error[i] = ""

C2_Witness ==
    /\ pc[1] = "rejected"
    /\ Len(signerCalls[1]) = 2
    /\ signerCalls[1][2].settled = "rejected"
    /\ pc[2] = "rejected"
    /\ Len(signerCalls[2]) = 1
    /\ signerCalls[2][1].settled = "rejected"

\* C5: the first component of the returned pair is the digest of the message
\* that was handed to signer.signMessage, which is the digest of the encoding
\* of the Transaction built from the arguments and the public key alone; the
\* second component is the SignedTransaction that was packaged.
C5_HashOfSignedMessage ==
    \A i \in Invocations :
        pc[i] = "resolved" =>
            /\ result[i][1] = Sha256(TheCall(i, "signMessage").message)
            /\ result[i][1] =
                   Sha256(Transaction_encode(
                       createTransaction(Opt(args[i], "accountId"),
                                         TheCall(i, "getPublicKey").value,
                                         args[i].receiverId, args[i].nonce,
                                         args[i].actions, args[i].blockHash)).bytes)
            /\ result[i][2] = locals[i].signedTx

\* two successful invocations with the same arguments and public key but
\* different signatures
C5_Witness ==
    /\ pc[1] = "resolved"
    /\ pc[2] = "resolved"
    /\ args[1] = args[2]
    /\ TheCall(1, "getPublicKey").value = TheCall(2, "getPublicKey").value
    /\ TheCall(1, "signMessage").value # TheCall(2, "signMessage").value

\* C7 as stated: the steps run in the order assemble, encode, hash,
\* getPublicKey, signMessage, package, return.
C7_SpecOrder ==
    \A i \in Invocations :
        IsPrefix(steps[i], <<"assemble", "encode", "hash", "getPublicKey",
                             "signMessage", "package", "return">>)

\* C7 amended: the steps run in the order getPublicKey, assemble, encode,
\* hash, signMessage, package, return, none repeated or skipped on a
\* successful run; the Transaction is assembled only after getPublicKey has
\* completed, and signMessage is requested only after that.
C7_CodeOrder ==
    \A i \in Invocations :
        /\ IsPrefix(steps[i], FullRun)
        /\ pc[i] = "resolved" => steps[i] = FullRun
        /\ Len(steps[i]) >= 2 => TheCall(i, "getPublicKey").settled = "resolved"

C7_Witness ==
    /\ pc[2] = "resolved"
    /\ steps[2] = FullRun
    /\ pc[1] = "idle"

\* C8: in the returned SignedTransaction the Signature carries the key type
\* of the public key getPublicKey returned and the signature bytes
\* signMessage returned, and the embedded Transaction has that public key,
\* signerId = accountId and the caller's receiverId, nonce, actions and
\* blockHash.
C8_PackagedFields ==
    \A i \in Invocations :
        pc[i] = "resolved" =>
            LET stx == result[i][2]
                key == TheCall(i, "getPublicKey").value
                sig == TheCall(i, "signMessage").value
            IN /\ DOMAIN stx = {"transaction", "signature"}
               /\ stx.signature = [keyType |-> key.keyType, data |-> sig.signature]
               /\ stx.transaction.publicKey = key
               /\ stx.transaction.signerId = args[i].accountId
               /\ stx.transaction.receiverId = args[i].receiverId
               /\ stx.transaction.nonce = args[i].nonce
               /\ stx.transaction.actions = args[i].actions
               /\ stx.transaction.blockHash = args[i].blockHash

C8_Witness ==
    /\ pc[1] = "resolved"
    /\ result[1][2].signature.keyType = 1
    /\ result[1][2].signature.data = Bytes(SignatureLen, 22)
    /\ "networkId" \in DOMAIN args[1]

\* what invocation i must produce, from its own arguments and the answers
\* the Signer gave to its own requests
OwnTransaction(i) ==
    createTransaction(Opt(args[i], "accountId"), TheCall(i, "getPublicKey").value,
                      args[i].receiverId, args[i].nonce, args[i].actions,
                      args[i].blockHash)

OwnSignedTx(i) ==
    [transaction |-> OwnTransaction(i),
     signature |-> [keyType |-> TheCall(i, "getPublicKey").value.keyType,
                    data |-> TheCall(i, "signMessage").value.signature]]

\* every constant an invocation has bound comes from its own arguments and
\* its own Signer answers
C10_OwnState ==
    \A i \in Invocations :
        /\ "transaction" \in DOMAIN locals[i] => locals[i].transaction = OwnTransaction(i)
        /\ "message" \in DOMAIN locals[i] =>
               Ok(locals[i].message) = Transaction_encode(OwnTransaction(i))
        /\ "hash" \in DOMAIN locals[i] =>
               locals[i].hash = Sha256(Transaction_encode(OwnTransaction(i)).bytes)
        /\ "signedTx" \in DOMAIN locals[i] => locals[i].signedTx = OwnSignedTx(i)
        /\ pc[i] = "resolved" =>
               result[i] = <<Sha256(Transaction_encode(OwnTransaction(i)).bytes),
                             OwnSignedTx(i)>>

\* a step of one invocation leaves everything of the other unchanged
C10_NoInterference ==
    \A i, j \in Invocations :
        (i # j /\ (pc'[j] # pc[j] \/ locals'[j] # locals[j])) =>
            /\ pc'[i] = pc[i]
            /\ args'[i] = args[i]
            /\ locals'[i] = locals[i]
            /\ result'[i] = result[i]
            /\ error'[i] = error[i]
            /\ steps'[i] = steps[i]
            /\ signerCalls'[i] = signerCalls[i]

\* C10: in every interleaving of two invocations each one's transaction,
\* message, digest, signature and result come from its own arguments and its
\* own Signer answers, and no step of one invocation, a failure included,
\* changes anything of the other.
C10_Isolation == [](C10_OwnState) /\ [][C10_NoInterference]_vars

\* invocation 1 is about to return while invocation 2, called with other
\* arguments and given another key, is suspended in signMessage
C10_Witness ==
    /\ pc[1] = "return"
    /\ pc[2] = "awaitSignature"
    /\ args[1] # args[2]
    /\ locals[1].publicKey # locals[2].publicKey

====
